---- MODULE Spec2Model ----
(***************************************************************************)
(* GPUInfo.py: the deep merge update_dict_recursive, the result callback   *)
(* callback_func and the orchestration in main (a multiprocessing.Pool of  *)
(* one worker process, apply_async with a callback, a sequential wait      *)
(* loop with per-task timeouts, close/terminate).                          *)
(*                                                                         *)
(* ILOConn.py: IloConnection.send_message with BasicAuth or SessionAuth.   *)
(*                                                                         *)
(* Four specifications share the variables:                                *)
(*   SpecMerge    folds partial records into a dict with                   *)
(*                update_dict_recursive (the pure part);                   *)
(*   Spec         runs main: submission, worker, result handler, wait      *)
(*                loop, terminate, projection;                             *)
(*   SpecProject  runs the projection alone, on the aggregates the folds   *)
(*                can leave;                                               *)
(*   SpecIlo      runs send_message calls on one IloConnection.            *)
(***************************************************************************)
EXTENDS Integers, Sequences, FiniteSets, TLC

VARIABLES
    mData,      \* SpecMerge: the dict being updated (argument `data`)
    mAlt,       \* SpecMerge: the same records folded with the first two swapped
    mPrev,      \* SpecMerge: mData before the last fold
    mLog,       \* SpecMerge: the records folded so far, in order
    mErr,       \* SpecMerge: the last fold raised (AttributeError / TypeError)
    abridge,    \* args.abridge
    device,     \* args.device (NoDevice when the option is not given)
    slow,       \* the tasks whose adapter takes arbitrarily long (or hangs)
    interrupt_info, \* the "PCI:b:d:f" numbers of /proc/ati/0/interrupt_info, <<>> if none
    busAddr,    \* the bus address of the GPU as aticonfig and agi print it
    pc,         \* where main is
    thread_results, \* main's list of (func, async_result, timeout), by task number
    deviceList, \* the value of _get_smbios_data().keys() computed in main
    idx,        \* the wait loop's position in thread_results
    waited,     \* seconds main has spent in waits that timed out
    outcome,    \* per task, what the wait loop found: Completed, Failed, TimedOut
    poolState,  \* the pool's _state: RUN, CLOSE, TERMINATE
    taskq,      \* tasks submitted and not yet picked up by the worker process
    running,    \* the task the worker process runs (0: idle)
    outq,       \* results the worker has put and the result handler has not got
    merging,    \* results whose callback_func call has begun and not returned
    handlerAlive, \* the pool's result-handler thread is running
    ready,      \* tasks whose async_result is ready
    success,    \* tasks whose async_result is successful
    folds,      \* per task, the number of callback_func calls that returned
    pci_data,   \* the global aggregate
    gpuDevices, \* gpu_data['gpuDevices'] as printed
    authType,   \* ILOConn: the class of self.auth, "Basic" or "Session"
    auth_token, \* ILOConn: self.auth.auth_token
    iloPc,      \* ILOConn: where the send_message call is
    calls,      \* ILOConn: send_message calls made on the connection
    sends,      \* ILOConn: resource requests sent by the current call
    firstStatus, \* ILOConn: resp.status of the call's first resource request
    resp,       \* ILOConn: resp.status of the call's latest resource request
    sessionTries, \* ILOConn: create_session calls made by the current call
    redirects,  \* ILOConn: redirects followed by the current create_session
    rc          \* main's return value (-1: none yet)

mvars == <<mData, mAlt, mPrev, mLog, mErr>>

ovars == <<abridge, device, slow, interrupt_info, busAddr, pc, thread_results, deviceList, idx,
           waited, outcome, poolState, taskq, running, outq, merging,
           handlerAlive, ready, success, folds, pci_data, gpuDevices, rc>>

ivars == <<authType, auth_token, iloPc, calls, sends, firstStatus, resp,
           sessionTries, redirects>>

vars == <<mvars, ovars, ivars>>

(***************************************************************************)
(* Values. A Python value is a scalar (str, int, list: anything that is    *)
(* not a collections.Mapping) or a dict. update_dict_recursive tells them  *)
(* apart with isinstance, so the model tags them.                          *)
(***************************************************************************)
Sc(v) == [t |-> "S", v |-> v]

Map(f) == [t |-> "M", m |-> f]

EmptyMap == Map(<<>>)

\* isinstance(value, collections.Mapping)
IsMapping(x) == x.t = "M"

Keys(x) == DOMAIN x.m

\* data.get(key, default)
Get(data, key, default) == IF key \in Keys(data) THEN data.m[key] ELSE default

\* data[key] = val
Put(data, key, val) ==
    Map([k \in Keys(data) \cup {key} |-> IF k = key THEN val ELSE data.m[k]])

(***************************************************************************)
(* The names used as dict keys, in a fixed reference order. A Python 2     *)
(* dict iterates in hash order, which the program does not control: the    *)
(* model iterates in the reference order or in its reverse (rev).          *)
(***************************************************************************)
NameOrder ==
    << "0000:09:00.0", "0000:0a:00.0", "0000:0A:00.0", "0000:0b:00.0",
       "0000:0c:00.0", "None",
       "location", "product", "status", "hardwareId",
       "slot", "bus", "name", "biosPartNumber", "serialNumber",
       "clients", "usage", "vendor", "device", "subsystemVendor",
       "subsystemDevice", "ASIC Temperature" >>

NameRank ==
    [n \in {NameOrder[i] : i \in 1..Len(NameOrder)} |->
        CHOOSE i \in 1..Len(NameOrder) : NameOrder[i] = n]

Rank(n) == NameRank[n]

RECURSIVE SortedKeys(_)
SortedKeys(S) ==
    IF S = {} THEN <<>>
    ELSE LET k == CHOOSE x \in S : \A y \in S : Rank(x) <= Rank(y)
         IN  <<k>> \o SortedKeys(S \ {k})

Reverse(s) == [i \in 1..Len(s) |-> s[Len(s) + 1 - i]]

\* update.iteritems(): the keys of `update` in iteration order
IterKeys(update, rev) ==
    IF rev THEN Reverse(SortedKeys(Keys(update))) ELSE SortedKeys(Keys(update))

(***************************************************************************)
(* update_dict_recursive(data, update). The result is [err, val]: err says *)
(* the call raised, val is the object `data` as the call left it (the dict *)
(* is mutated in place, so what was written before a raise stays).         *)
(*   - `data` may be a scalar: data.get(key, {}) returns whatever is       *)
(*     stored at key. With an empty `update` the loop body never runs and  *)
(*     the scalar is returned; otherwise the first key raises              *)
(*     (data.get: AttributeError, data[key] = ..: TypeError).              *)
(***************************************************************************)
RECURSIVE UpdLoop(_, _, _, _)
UpdLoop(data, update, ks, rev) ==
    IF ks = <<>> THEN [err |-> FALSE, val |-> data]
    ELSE IF ~IsMapping(data) THEN [err |-> TRUE, val |-> data]
    ELSE LET key   == Head(ks)
             value == update.m[key]
         IN  IF IsMapping(value)
             THEN LET r == UpdLoop(Get(data, key, EmptyMap), value,
                                   IterKeys(value, rev), rev)
                  IN  IF r.err
                      THEN [err |-> TRUE,
                            val |-> IF key \in Keys(data)
                                    THEN Put(data, key, r.val) ELSE data]
                      ELSE UpdLoop(Put(data, key, r.val), update, Tail(ks), rev)
             ELSE UpdLoop(Put(data, key, value), update, Tail(ks), rev)

(***************************************************************************)
(* Two ways update_dict_recursive could go wrong, used to test the claims  *)
(* about it: the builtin dict.update (every value of `update` replaces     *)
(* what is stored), and a merge of the top level only.                     *)
(***************************************************************************)
RECURSIVE ShallowLoop(_, _, _)
ShallowLoop(data, update, ks) ==
    IF ks = <<>> THEN data
    ELSE ShallowLoop(Put(data, Head(ks), update.m[Head(ks)]), update, Tail(ks))

update_dict_shallow(data, update, rev) ==
    [err |-> FALSE, val |-> ShallowLoop(data, update, IterKeys(update, rev))]

RECURSIVE OneLevelLoop(_, _, _, _)
OneLevelLoop(data, update, ks, rev) ==
    IF ks = <<>> THEN data
    ELSE LET key == Head(ks)
             old == Get(data, key, EmptyMap)
             new == IF IsMapping(update.m[key]) /\ IsMapping(old)
                    THEN ShallowLoop(old, update.m[key], IterKeys(update.m[key], rev))
                    ELSE update.m[key]
         IN  OneLevelLoop(Put(data, key, new), update, Tail(ks), rev)

update_dict_one_level(data, update, rev) ==
    [err |-> FALSE, val |-> OneLevelLoop(data, update, IterKeys(update, rev), rev)]

update_dict_recursive(data, update, rev) ==
    UpdLoop(data, update, IterKeys(update, rev), rev)

(***************************************************************************)
(* Paths. A leaf is a scalar or an empty dict; a leaf path is the sequence *)
(* of keys from the top of a record down to a leaf.                        *)
(***************************************************************************)
IsLeaf(x) == ~IsMapping(x) \/ Keys(x) = {}

RECURSIVE LeafPaths(_)
LeafPaths(x) ==
    IF ~IsMapping(x) THEN {}
    ELSE UNION { IF IsLeaf(x.m[k]) THEN {<<k>>}
                 ELSE {<<k>> \o p : p \in LeafPaths(x.m[k])} : k \in Keys(x) }

IsPrefix(p, q) == Len(p) <= Len(q) /\ \A i \in 1..Len(p) : p[i] = q[i]

\* two records overlap when a leaf path of one is a leaf path of the other
\* or runs through it
Overlap(P, Q) ==
    \E p \in LeafPaths(P), q \in LeafPaths(Q) : IsPrefix(p, q) \/ IsPrefix(q, p)

RECURSIVE HasPath(_, _)
HasPath(x, p) ==
    IF p = <<>> THEN TRUE
    ELSE IsMapping(x) /\ Head(p) \in Keys(x) /\ HasPath(x.m[Head(p)], Tail(p))

RECURSIVE ValueAt(_, _)
ValueAt(x, p) == IF p = <<>> THEN x ELSE ValueAt(x.m[Head(p)], Tail(p))

(***************************************************************************)
(* The records SpecMerge folds: one device key, the attribute names of two *)
(* adapters, attribute values that are scalars or one more level of dict.  *)
(* update_dict_recursive never looks into a scalar, so two scalar values   *)
(* are enough to tell an overwritten leaf from a kept one.                 *)
(***************************************************************************)
MaxLeaves == 2

MergeKey == "0000:09:00.0"

MergeAttrs == {"location", "product"}

MergeSubs == {"slot", "name"}

ScalarValues == {Sc(1), Sc(2)}

MapsOver(names, vals) == { Map(f) : f \in UNION { [s -> vals] : s \in SUBSET names } }

AttrValues == ScalarValues \cup MapsOver(MergeSubs, ScalarValues)

AttrTrees == MapsOver(MergeAttrs, AttrValues)

Partials ==
    {EmptyMap} \cup
    { Map([k \in {MergeKey} |-> t]) :
        t \in { u \in AttrTrees : Cardinality(LeafPaths(u)) <= MaxLeaves } }

(***************************************************************************)
(* SpecMerge: callback_func applied to up to three records, starting from  *)
(* the empty dict. mAlt folds the same records with the first two swapped. *)
(* A third record is folded only after two records that do not overlap     *)
(* (the histories the order comparison is about); a raise ends the run, as *)
(* nothing catches it.                                                     *)
(***************************************************************************)
(***************************************************************************)
(* Each specification holds the other one's variables still.               *)
(***************************************************************************)
NoDevice == ""

\* no IloConnection exists
IloAtRest ==
    /\ authType = "Basic"
    /\ auth_token = "none"
    /\ iloPc = "idle"
    /\ calls = 0
    /\ sends = 0
    /\ firstStatus = 0
    /\ resp = 0
    /\ sessionTries = 0
    /\ redirects = 0

OrchAtRest ==
    /\ abridge = FALSE
    /\ device = NoDevice
    /\ slow = {}
    /\ interrupt_info = <<>>
    /\ busAddr = ""
    /\ pc = "idle"
    /\ thread_results = <<>>
    /\ deviceList = {}
    /\ idx = 1
    /\ waited = 0
    /\ outcome = <<>>
    /\ poolState = "RUN"
    /\ taskq = <<>>
    /\ running = 0
    /\ outq = <<>>
    /\ merging = {}
    /\ handlerAlive = TRUE
    /\ ready = {}
    /\ success = {}
    /\ folds = <<>>
    /\ pci_data = EmptyMap
    /\ gpuDevices = <<>>
    /\ rc = -1

MergeAtRest ==
    /\ mData = EmptyMap
    /\ mAlt = EmptyMap
    /\ mPrev = EmptyMap
    /\ mLog = <<>>
    /\ mErr = FALSE

InitMerge ==
    /\ mData = EmptyMap
    /\ mAlt = EmptyMap
    /\ mPrev = EmptyMap
    /\ mLog = <<>>
    /\ mErr = FALSE
    /\ OrchAtRest
    /\ IloAtRest

FoldAlt(P, rev) ==
    IF Len(mLog) = 0 THEN update_dict_recursive(EmptyMap, P, rev).val
    ELSE IF Len(mLog) = 1
    THEN update_dict_recursive(
             update_dict_recursive(EmptyMap, P, rev).val, mLog[1], rev).val
    ELSE update_dict_recursive(mAlt, P, rev).val

FoldRecord(P, rev) ==
    /\ ~mErr
    /\ Len(mLog) \in {0, 1, 2}
    /\ Len(mLog) = 2 => ~Overlap(mLog[1], mLog[2])
    /\ LET r == update_dict_recursive(mData, P, rev)
       IN  /\ mData' = r.val
           /\ mErr' = r.err
    /\ mAlt' = FoldAlt(P, rev)
    /\ mPrev' = mData
    /\ mLog' = Append(mLog, P)
    /\ UNCHANGED <<ovars, ivars>>

NextMerge == \E P \in Partials, rev \in BOOLEAN : FoldRecord(P, rev)

SpecMerge == InitMerge /\ [][NextMerge]_vars

(***************************************************************************)
(* Claims about update_dict_recursive, read off the last fold of SpecMerge *)
(***************************************************************************)
LastRecord == mLog[Len(mLog)]

AgreesWith(P) == \A p \in LeafPaths(P) : HasPath(mData, p) /\ ValueAt(mData, p) = ValueAt(P, p)

\* C1: two records that share a device key and whose leaf paths do not overlap:
\* folding them into the empty dict raises nothing and gives, under that key,
\* exactly the leaf paths of both, each with the value its record gave it.
C1_DisjointFoldIsUnion ==
    ( /\ Len(mLog) = 2
      /\ MergeKey \in Keys(mLog[1]) /\ MergeKey \in Keys(mLog[2])
      /\ ~Overlap(mLog[1], mLog[2]) )
    => /\ ~mErr
       /\ LeafPaths(mData) = LeafPaths(mLog[1]) \cup LeafPaths(mLog[2])
       /\ AgreesWith(mLog[1])
       /\ AgreesWith(mLog[2])

\* two non-overlapping records under one device key that both write below the
\* attribute "product" have been folded
C1_Witness ==
    /\ Len(mLog) = 2
    /\ ~Overlap(mLog[1], mLog[2])
    /\ <<MergeKey, "product", "name">> \in LeafPaths(mLog[1])
    /\ <<MergeKey, "product", "slot">> \in LeafPaths(mLog[2])
    /\ <<MergeKey, "product", "name">> \in LeafPaths(mData)

PairwiseDisjoint ==
    \A i, j \in 1..Len(mLog) : i < j => ~Overlap(mLog[i], mLog[j])

\* C2: three records with no overlapping leaf paths: folding them in the order
\* P1, P2, P3 and in the order P2, P1, P3 gives the same dict.
C2_FoldOrderIndependent ==
    (Len(mLog) = 3 /\ PairwiseDisjoint) => (~mErr /\ mData = mAlt)

\* three non-empty, pairwise non-overlapping records have been folded, two of
\* them below the same attribute
C2_Witness ==
    /\ Len(mLog) = 3
    /\ PairwiseDisjoint
    /\ \A i \in 1..3 : LeafPaths(mLog[i]) # {}
    /\ <<MergeKey, "product", "name">> \in LeafPaths(mLog[1])
    /\ <<MergeKey, "product", "slot">> \in LeafPaths(mLog[2])
    /\ mData = mAlt

Front(p) == SubSeq(p, 1, Len(p) - 1)

Last(p) == p[Len(p)]

\* the leaf paths at which the last two records give different scalars
ScalarConflicts ==
    { p \in LeafPaths(LastRecord) \cap LeafPaths(mLog[Len(mLog) - 1]) :
        /\ ~IsMapping(ValueAt(LastRecord, p))
        /\ ~IsMapping(ValueAt(mLog[Len(mLog) - 1], p))
        /\ ValueAt(LastRecord, p) # ValueAt(mLog[Len(mLog) - 1], p) }

SiblingsKept(p) ==
    \A s \in Keys(ValueAt(mPrev, Front(p))) \ Keys(ValueAt(LastRecord, Front(p))) :
        /\ HasPath(mData, Front(p) \o <<s>>)
        /\ ValueAt(mData, Front(p) \o <<s>>) = ValueAt(mPrev, Front(p) \o <<s>>)

\* C3: when the last two records folded give different scalars at one leaf path,
\* the dict afterwards holds the later record's scalar there, and every sibling
\* that was under the same parent before the fold is still there, unchanged.
C3_LastWriterWins ==
    Len(mLog) >= 2 =>
        \A p \in ScalarConflicts :
            /\ HasPath(mData, p)
            /\ ValueAt(mData, p) = ValueAt(LastRecord, p)
            /\ SiblingsKept(p)

RECURSIVE NodePaths(_)
NodePaths(x) ==
    IF ~IsMapping(x) THEN {}
    ELSE UNION { {<<k>>} \cup {<<k>> \o p : p \in NodePaths(x.m[k])} : k \in Keys(x) }

\* the paths present before the fold and in the record folded, where the two
\* values are not both dicts
MixedPaths ==
    { p \in NodePaths(mPrev) \cap NodePaths(LastRecord) :
        ~(IsMapping(ValueAt(mPrev, p)) /\ IsMapping(ValueAt(LastRecord, p))) }

\* C4: where the stored value and the incoming value are not both dicts, the
\* fold raises nothing and the dict afterwards holds the incoming value there.
C4_MixedOverwrites ==
    Len(mLog) >= 1 =>
        \A p \in MixedPaths :
            /\ ~mErr
            /\ HasPath(mData, p)
            /\ ValueAt(mData, p) = ValueAt(LastRecord, p)

\* the half of C4 the code does: a stored dict is replaced by an incoming scalar
C4_TreeReplacedByScalar ==
    Len(mLog) >= 1 =>
        \A p \in MixedPaths :
            (~IsMapping(ValueAt(LastRecord, p)) /\ ~mErr)
                => (HasPath(mData, p) /\ ValueAt(mData, p) = ValueAt(LastRecord, p))

(***************************************************************************)
(* main. The machine the program runs on has two PCI-E slots, a GPU in the *)
(* first (Dev1), the second (Dev2) empty. What varies is how the GPU's     *)
(* address reaches the adapters: the numbers in the driver's               *)
(* interrupt_info (or none), the text aticonfig and agi print, the text    *)
(* of --device. Scalars are numbered.                                      *)
(***************************************************************************)
Dev1 == "0000:0a:00.0"

Dev2 == "0000:0b:00.0"

\* Dev1 as a user may spell it on the command line
Dev1Upper == "0000:0A:00.0"

\* Python's None used as a dict key
None == "None"

OneKey(k, v) == Map([x \in {k} |-> v])

\* "%02x" % n and "%x" % n for the numbers that occur
Hex2 == (0 :> "00") @@ (10 :> "0a") @@ (11 :> "0b") @@ (12 :> "0c")

Hex1 == (0 :> "0") @@ (1 :> "1")

\* "%04x:%02x:%02x.%x" % (0, bus, device, function)
FormatBusId(bus, dev, fn) ==
    "0000" \o ":" \o Hex2[bus] \o ":" \o Hex2[dev] \o "." \o Hex1[fn]

\* DDDD:BB:DD.F in lowercase hex, for the addresses that occur
CanonicalKeys ==
    { FormatBusId(b, d, f) : b \in DOMAIN Hex2, d \in {0}, f \in DOMAIN Hex1 }

\* what the GPU's node and the vendor tools show on a healthy machine
NodeAddress == <<10, 0, 0>>

ToolAddress == "0a:00.0"

\* the same address as a tool printing upper-case hex shows it
ToolAddressUpper == "0A:00.0"

\* _get_smbios_data(): every slot, with its designation and bus address; the
\* key is the address as dmidecode prints it
get_smbios_data ==
    Map((Dev1 :> OneKey("location", Map([slot |-> Sc(1), bus |-> Sc(10)]))) @@
        (Dev2 :> OneKey("location", Map([slot |-> Sc(2), bus |-> Sc(11)]))))

\* _get_aticonfig_data(): "0000" and the address as aticonfig prints it
get_aticonfig_data ==
    OneKey("0000:" \o busAddr, OneKey("product", OneKey("name", Sc(3))))

\* _get_sysfs_pci_info(deviceList): the devices of deviceList that sysfs has
SysfsRecord(keys) ==
    Map([k \in keys \cap {Dev1} |->
            OneKey("hardwareId",
                   Map([vendor |-> Sc(1), device |-> Sc(2),
                        subsystemVendor |-> Sc(1), subsystemDevice |-> Sc(3)]))])

\* _get_proc_node_busid(0): None when the file has no PCI:b:d:f the pattern
\* matches, the formatted numbers otherwise
get_proc_node_busid ==
    IF interrupt_info = <<>> THEN None
    ELSE FormatBusId(interrupt_info[1], interrupt_info[2], interrupt_info[3])

\* _get_proc_clients(): result[bus_id] = ..., whatever bus_id is
get_proc_clients ==
    OneKey(get_proc_node_busid, OneKey("status", OneKey("clients", Sc(0))))

\* _get_proc_vbiosversion(): result[bus_id] = ..., whatever bus_id is
get_proc_vbiosversion ==
    OneKey(get_proc_node_busid, OneKey("product", OneKey("biosPartNumber", Sc(4))))

\* _get_agi_gpustatus(device): '0000:' and the address as agi prints it
get_agi_gpustatus ==
    OneKey("0000:" \o busAddr,
           OneKey("status", OneKey("usage", OneKey("ASIC Temperature", Sc(6)))))

\* _get_agi_serial_id(device): keyed by the argument when one is given
SerialRecord(dev) ==
    OneKey(IF dev = NoDevice THEN "0000:" \o busAddr ELSE dev,
           OneKey("product", OneKey("serialNumber", Sc(5))))

\* what the adapter of task i returns when it returns
AdapterResult(i) ==
    CASE i = 1 -> get_smbios_data
      [] i = 2 -> get_aticonfig_data
      [] i = 3 -> get_proc_clients
      [] i = 4 -> get_proc_vbiosversion
      [] i = 5 -> SysfsRecord(deviceList)
      [] i = 6 -> get_agi_gpustatus
      [] i = 7 -> SerialRecord(device)

ShortTimeout == 5

LongTimeout == 8

\* the timeout run_async is given for task i
Timeout(i) == IF i <= 5 THEN ShortTimeout ELSE LongTimeout

\* the number of run_async calls main makes
NumTasks == IF abridge THEN 5 ELSE 7

\* run_async calls made so far
Submitted == Len(thread_results)

\* at most MaxFaulty things of a run are out of the ordinary: a task that is
\* slow or raises, a node without address, an address in upper case
MaxFaulty == 1

\* how much of the environment is out of the ordinary
EnvFaults ==
    (IF interrupt_info = <<>> THEN 1 ELSE 0)
    + (IF busAddr = ToolAddressUpper THEN 1 ELSE 0)
    + (IF device = Dev1Upper THEN 1 ELSE 0)

\* the tasks whose adapter has raised so far
Raised == { i \in 1..7 : \/ i \in ready \ success
                         \/ \E n \in 1..Len(outq) : outq[n].job = i /\ ~outq[n].ok }

Init ==
    /\ MergeAtRest
    /\ IloAtRest
    /\ abridge \in BOOLEAN
    /\ device \in {NoDevice, Dev1, Dev1Upper}
    /\ interrupt_info \in {NodeAddress, <<>>}
    /\ busAddr \in {ToolAddress, ToolAddressUpper}
    /\ slow \in SUBSET (1..7)
    /\ Cardinality(slow) + EnvFaults <= MaxFaulty
    /\ pc = "submit"
    /\ thread_results = <<>>
    /\ deviceList = {}
    /\ idx = 1
    /\ waited = 0
    /\ outcome = [i \in 1..7 |-> "none"]
    /\ poolState = "RUN"
    /\ taskq = <<>>
    /\ running = 0
    /\ outq = <<>>
    /\ merging = {}
    /\ handlerAlive = TRUE
    /\ ready = {}
    /\ success = {}
    /\ folds = [i \in 1..7 |-> 0]
    /\ pci_data = EmptyMap
    /\ gpuDevices = <<>>
    /\ rc = -1

inputs == <<abridge, device, slow, interrupt_info, busAddr>>

poolvars == <<poolState, taskq, running, outq, merging, handlerAlive, ready,
              success, folds, pci_data>>

waitvars == <<idx, waited, outcome>>

(***************************************************************************)
(* Submission (lines 530-546). run_async puts the task on the pool's task  *)
(* queue and returns; the argument of the fifth call is computed by        *)
(* running _get_smbios_data() in main itself (line 538).                   *)
(***************************************************************************)
\* the fifth run_async call needs _get_smbios_data().keys() first
NeedsSmbiosKeys == Submitted = 4 /\ pc = "submit"

run_async ==
    /\ pc = "submit"
    /\ Submitted < NumTasks
    /\ Submitted # 4
    /\ poolState = "RUN"
    /\ taskq' = Append(taskq, Submitted + 1)
    /\ thread_results' = Append(thread_results,
                                [func |-> Submitted + 1, timeout |-> Timeout(Submitted + 1)])
    /\ UNCHANGED <<mvars, ivars, inputs, pc, deviceList, waitvars, poolState, running, outq,
                   merging, handlerAlive, ready, success, folds, pci_data,
                   gpuDevices, rc>>

\* line 538: main starts evaluating _get_smbios_data() itself
CallSmbiosInMain ==
    /\ NeedsSmbiosKeys
    /\ pc' = "call_smbios"
    /\ UNCHANGED <<mvars, ivars, inputs, thread_results, deviceList, waitvars, poolvars,
                   gpuDevices, rc>>

\* the call returns and the fifth task is submitted with its keys
SmbiosInMainReturns ==
    /\ pc = "call_smbios"
    /\ deviceList' = Keys(get_smbios_data)
    /\ taskq' = Append(taskq, 5)
    /\ thread_results' = Append(thread_results, [func |-> 5, timeout |-> Timeout(5)])
    /\ pc' = "submit"
    /\ UNCHANGED <<mvars, ivars, inputs, waitvars, poolState, running, outq, merging,
                   handlerAlive, ready, success, folds, pci_data, gpuDevices, rc>>

\* the call raises (no dmidecode, a slot without a bus address): nothing
\* catches it and main ends with a traceback
SmbiosInMainRaises ==
    /\ pc = "call_smbios"
    /\ pc' = "crashed"
    /\ UNCHANGED <<mvars, ivars, inputs, thread_results, deviceList, waitvars, poolvars,
                   gpuDevices, rc>>

SubmissionDone ==
    /\ pc = "submit"
    /\ Submitted = NumTasks
    /\ pc' = "loop"
    /\ UNCHANGED <<mvars, ivars, inputs, thread_results, deviceList, waitvars, poolvars,
                   gpuDevices, rc>>

(***************************************************************************)
(* The pool (multiprocessing.Pool(processes=1), Python 2): one worker      *)
(* process takes the tasks in submission order; one result-handler thread  *)
(* of the main process takes each result, calls the callback when the task *)
(* succeeded and then marks the async_result ready. Nothing in the pool    *)
(* catches what the callback raises: the handler thread ends.              *)
(***************************************************************************)
WorkerStarts ==
    /\ poolState # "TERMINATE"
    /\ running = 0
    /\ taskq # <<>>
    /\ running' = Head(taskq)
    /\ taskq' = Tail(taskq)
    /\ UNCHANGED <<mvars, ivars, inputs, pc, thread_results, deviceList, waitvars, poolState,
                   outq, merging, handlerAlive, ready, success, folds, pci_data,
                   gpuDevices, rc>>

\* the adapter returns its record and the worker puts it on the result queue
WorkerReturns ==
    /\ running # 0
    /\ outq' = Append(outq, [job |-> running, ok |-> TRUE, value |-> AdapterResult(running)])
    /\ running' = 0
    /\ UNCHANGED <<mvars, ivars, inputs, pc, thread_results, deviceList, waitvars, poolState,
                   taskq, merging, handlerAlive, ready, success, folds, pci_data,
                   gpuDevices, rc>>

\* the adapter raises and the worker puts the exception on the result queue
WorkerRaises ==
    /\ running # 0
    /\ running \notin slow
    /\ Cardinality(Raised) + Cardinality(slow) + EnvFaults < MaxFaulty
    /\ outq' = Append(outq, [job |-> running, ok |-> FALSE, value |-> EmptyMap])
    /\ running' = 0
    /\ UNCHANGED <<mvars, ivars, inputs, pc, thread_results, deviceList, waitvars, poolState,
                   taskq, merging, handlerAlive, ready, success, folds, pci_data,
                   gpuDevices, rc>>

\* a pool whose callbacks are not confined to the one handler thread
HandlerNeverBusy == TRUE

\* the handler thread is between two results
HandlerIsFree == merging = {}

\* the handler thread gets a successful result and calls callback_func
HandlerCallsBack ==
    /\ handlerAlive
    /\ poolState # "TERMINATE"
    /\ HandlerIsFree
    /\ outq # <<>>
    /\ Head(outq).ok
    /\ merging' = merging \cup {Head(outq)}
    /\ outq' = Tail(outq)
    /\ UNCHANGED <<mvars, ivars, inputs, pc, thread_results, deviceList, waitvars, poolState,
                   taskq, running, handlerAlive, ready, success, folds,
                   pci_data, gpuDevices, rc>>

\* callback_func(data): pci_data = update_dict_recursive(pci_data, data);
\* then the pool marks the result ready. When the update raises, pci_data
\* keeps what was written and the handler thread ends.
callback_func(res, rev) ==
    /\ res \in merging
    /\ LET r == update_dict_recursive(pci_data, res.value, rev)
       IN  /\ pci_data' = r.val
           /\ handlerAlive' = ~r.err
           /\ ready' = IF r.err THEN ready ELSE ready \cup {res.job}
           /\ success' = IF r.err THEN success ELSE success \cup {res.job}
           /\ folds' = IF r.err THEN folds ELSE [folds EXCEPT ![res.job] = @ + 1]
    /\ merging' = merging \ {res}
    /\ UNCHANGED <<mvars, ivars, inputs, pc, thread_results, deviceList, waitvars, poolState,
                   taskq, running, outq, gpuDevices, rc>>

\* the handler thread gets a failed result: no callback, the result is ready
HandlerSetsFailed ==
    /\ handlerAlive
    /\ poolState # "TERMINATE"
    /\ HandlerIsFree
    /\ outq # <<>>
    /\ ~Head(outq).ok
    /\ ready' = ready \cup {Head(outq).job}
    /\ outq' = Tail(outq)
    /\ UNCHANGED <<mvars, ivars, inputs, pc, thread_results, deviceList, waitvars, poolState,
                   taskq, running, merging, handlerAlive, success, folds, pci_data,
                   gpuDevices, rc>>

(***************************************************************************)
(* Time. Only a slow adapter takes time: the other adapters and the pool's *)
(* own steps take none, so a wait runs into its timeout only when none of  *)
(* them is due.                                                            *)
(***************************************************************************)
PoolIsBusy ==
    \/ (running # 0 /\ running \notin slow)
    \/ (running = 0 /\ taskq # <<>> /\ poolState # "TERMINATE")
    \/ (outq # <<>> /\ handlerAlive /\ poolState # "TERMINATE")
    \/ merging # {}

(***************************************************************************)
(* The wait loop (lines 549-559), one item of thread_results at a time.    *)
(***************************************************************************)
\* line 551: a ready and successful result is passed over
LoopSkipsReady ==
    /\ pc = "loop"
    /\ idx <= Len(thread_results)
    /\ idx \in ready /\ idx \in success
    /\ outcome' = [outcome EXCEPT ![idx] = "Completed"]
    /\ idx' = idx + 1
    /\ UNCHANGED <<mvars, ivars, inputs, pc, thread_results, deviceList, waited,
                   poolvars, gpuDevices, rc>>

\* line 554: async_result.wait(wait_time) begins
WaitBegins ==
    /\ pc = "loop"
    /\ idx <= Len(thread_results)
    /\ ~(idx \in ready /\ idx \in success)
    /\ pc' = "wait"
    /\ UNCHANGED <<mvars, ivars, inputs, thread_results, deviceList, idx, waited, outcome,
                   poolvars, gpuDevices, rc>>

\* lines 555-557: wait returns because the result is ready
WaitEnds ==
    /\ pc = "wait"
    /\ idx \in ready
    /\ outcome' = [outcome EXCEPT ![idx] =
                      IF idx \in success THEN "Completed" ELSE "Failed"]
    /\ idx' = idx + 1
    /\ pc' = "loop"
    /\ UNCHANGED <<mvars, ivars, inputs, thread_results, deviceList, waited,
                   poolvars, gpuDevices, rc>>

\* lines 558-559: wait_time seconds pass and the result is still not ready
WaitTimesOut ==
    /\ pc = "wait"
    /\ idx \notin ready
    /\ ~PoolIsBusy
    /\ waited' = waited + thread_results[idx].timeout
    /\ outcome' = [outcome EXCEPT ![idx] = "TimedOut"]
    /\ idx' = idx + 1
    /\ pc' = "loop"
    /\ UNCHANGED <<mvars, ivars, inputs, thread_results, deviceList,
                   poolvars, gpuDevices, rc>>

(***************************************************************************)
(* close and terminate (lines 561-562). terminate stops the handlers,      *)
(* kills the worker and joins the result-handler thread, so it returns     *)
(* only once a callback that is running has returned.                      *)
(***************************************************************************)
PoolCloses ==
    /\ pc = "loop"
    /\ idx > Len(thread_results)
    /\ poolState' = "CLOSE"
    /\ pc' = "terminate"
    /\ UNCHANGED <<mvars, ivars, inputs, thread_results, deviceList, waitvars, taskq, running,
                   outq, merging, handlerAlive, ready, success, folds, pci_data,
                   gpuDevices, rc>>

PoolTerminates ==
    /\ pc = "terminate"
    /\ poolState' = "TERMINATE"
    /\ running' = 0
    /\ taskq' = <<>>
    /\ pc' = "join"
    /\ UNCHANGED <<mvars, ivars, inputs, thread_results, deviceList, waitvars, outq, merging,
                   handlerAlive, ready, success, folds, pci_data, gpuDevices, rc>>

\* a terminate() that returns without joining the result-handler thread
TerminateWithoutJoin ==
    /\ pc = "join"
    /\ pc' = "project"
    /\ UNCHANGED <<mvars, ivars, inputs, thread_results, deviceList, waitvars, poolvars,
                   gpuDevices, rc>>

\* terminate() joins the result-handler thread: it returns once no callback runs
HandlerJoined ==
    /\ pc = "join"
    /\ merging = {}
    /\ pc' = "project"
    /\ UNCHANGED <<mvars, ivars, inputs, thread_results, deviceList, waitvars, poolvars,
                   gpuDevices, rc>>

(***************************************************************************)
(* Projection (lines 565-583): sort the keys by location.slot, keep those  *)
(* with 'product' (or the one equal to args.device), print, return 0. A    *)
(* key without location.slot makes the sort key raise KeyError, which      *)
(* nothing catches.                                                        *)
(***************************************************************************)
HasSlot(k) == HasPath(pci_data, <<k, "location", "slot">>)

SlotOf(k) == ValueAt(pci_data, <<k, "location", "slot">>).v

RemoveAt(s, i) == SubSeq(s, 1, i - 1) \o SubSeq(s, i + 1, Len(s))

\* sorted(keys, key=slot): stable, so equal slots keep the order of ks
RECURSIVE SortedBySlot(_)
SortedBySlot(ks) ==
    IF ks = <<>> THEN <<>>
    ELSE LET i == CHOOSE n \in 1..Len(ks) :
                      /\ \A m \in 1..Len(ks) : SlotOf(ks[n]) <= SlotOf(ks[m])
                      /\ \A m \in 1..(n - 1) : SlotOf(ks[m]) # SlotOf(ks[n])
         IN  <<ks[i]>> \o SortedBySlot(RemoveAt(ks, i))

Filtered(sortedKeys) ==
    IF device # NoDevice
    THEN SelectSeq(sortedKeys, LAMBDA d : d = device)
    ELSE SelectSeq(sortedKeys, LAMBDA d : "product" \in Keys(pci_data.m[d]))

Projects(rev) ==
    /\ pc = "project"
    /\ IF \A k \in Keys(pci_data) : HasSlot(k)
       THEN LET shown == Filtered(SortedBySlot(IterKeys(pci_data, rev)))
            IN  /\ gpuDevices' = [i \in 1..Len(shown) |-> pci_data.m[shown[i]]]
                /\ rc' = 0
                /\ pc' = "done"
       ELSE /\ pc' = "crashed"
            /\ UNCHANGED <<gpuDevices, rc>>
    /\ UNCHANGED <<mvars, ivars, inputs, thread_results, deviceList, waitvars, poolvars>>

Next ==
    \/ run_async
    \/ CallSmbiosInMain
    \/ SmbiosInMainReturns
    \/ SmbiosInMainRaises
    \/ SubmissionDone
    \/ WorkerStarts
    \/ WorkerReturns
    \/ WorkerRaises
    \/ HandlerCallsBack
    \/ \E res \in merging, rev \in BOOLEAN : callback_func(res, rev)
    \/ HandlerSetsFailed
    \/ LoopSkipsReady
    \/ WaitBegins
    \/ WaitEnds
    \/ WaitTimesOut
    \/ PoolCloses
    \/ PoolTerminates
    \/ HandlerJoined
    \/ \E rev \in BOOLEAN : Projects(rev)

Spec == Init /\ [][Next]_vars

(***************************************************************************)
(* Claims about main, read off Spec                                        *)
(***************************************************************************)
Tasks == 1..NumTasks

\* main has left the wait loop
PastWaitLoop == pc \in {"terminate", "join", "project", "done"}

\* the largest timeout among the tasks main waits for
MaxAwaitedTimeout == IF NumTasks > 5 THEN LongTimeout ELSE ShortTimeout

\* something of task i's record is in the aggregate
Contributed(i) == \E p \in LeafPaths(AdapterResult(i)) : HasPath(pci_data, p)

\* C5: the time main spends in the wait loop is at most the largest timeout of
\* the tasks it waits for (the waits run side by side, not one after another).
C5_WaitBoundedByMaxTimeout == PastWaitLoop => waited <= MaxAwaitedTimeout

\* C6: a task that hangs, times out or raises does not hold up the others: when
\* the aggregate is about to be projected, every task that is not slow itself
\* was run to its end within its wait and, if it returned, was folded.
C6_OthersUnaffected ==
    pc = "project" =>
        \A j \in Tasks \ slow :
            /\ j \in ready
            /\ outcome[j] \in {"Completed", "Failed"}
            /\ j \in success => folds[j] = 1

\* C7: until the last descriptor has been submitted main neither runs an
\* adapter itself nor waits for a result.
C7_SubmissionNeverBlocks ==
    pc \in {"call_smbios", "wait"} => Submitted = NumTasks

\* C8: a task whose wait timed out has nothing in the aggregate that is
\* projected.
C8_TimedOutContributesNothing ==
    pc = "project" =>
        \A i \in Tasks : outcome[i] = "TimedOut" => ~Contributed(i)

\* an adapter has raised: in the worker, or in main's own call of line 538
SomeAdapterRaised == Raised # {} \/ (pc = "crashed" /\ Submitted < NumTasks)

\* C9: an adapter that raises has outcome Failed and leaves the aggregate as it
\* was, and the results of the remaining tasks are still folded: when main
\* ends, every task that did not raise and is not slow has been folded.
C9_FailureIsContained ==
    /\ \A i \in Raised :
          /\ folds[i] = 0
          /\ ~Contributed(i)
          /\ outcome[i] \in {"none", "Failed"}
    /\ (pc \in {"done", "crashed"} /\ SomeAdapterRaised) =>
          \A j \in Tasks \ (Raised \cup slow) : folds[j] = 1

\* C10: at most one callback_func call is in progress at any time, no task is
\* folded twice, and a task the wait loop found completed was folded once.
C10_OneMergeAtATime ==
    /\ Cardinality(merging) <= 1
    /\ \A i \in 1..7 : folds[i] <= 1
    /\ \A i \in 1..7 : outcome[i] = "Completed" => folds[i] = 1

\* a callback is running while the next result waits on the queue, and the
\* wait loop has already found an earlier task completed
C10_Witness ==
    /\ Cardinality(merging) = 1
    /\ outq # <<>>
    /\ Head(outq).ok
    /\ \E i \in 1..7 : outcome[i] = "Completed" /\ folds[i] = 1

\* main ended in the projection with an exception nothing catches
ProjectionFailed == pc = "crashed" /\ Submitted = NumTasks

\* C11: whichever adapters fail or time out, main's projection does not end in
\* an unhandled error: the document is emitted and the exit status is 0.
C11_AdapterFailureNotFatal ==
    /\ ~ProjectionFailed
    /\ pc = "done" => rc = 0

(***************************************************************************)
(* Progress. MainStep is every step main takes by itself; the two steps    *)
(* that end its own call of _get_smbios_data (line 538) are the adapter's, *)
(* and nothing makes an adapter return.                                    *)
(***************************************************************************)
MainStep ==
    \/ run_async \/ CallSmbiosInMain \/ SubmissionDone
    \/ LoopSkipsReady \/ WaitBegins \/ WaitEnds \/ WaitTimesOut
    \/ PoolCloses \/ PoolTerminates \/ HandlerJoined
    \/ \E rev \in BOOLEAN : Projects(rev)

\* C12: main always makes progress whatever the adapters do: as long as it has
\* not ended, once the pool has nothing left that ends by itself main has a
\* next step of its own (a wait for an adapter ends at its timeout).
C12_MainNeverStuck ==
    (pc \notin {"done", "crashed"} /\ ~PoolIsBusy) => ENABLED MainStep

\* C13: every key of the aggregate is a bus address in the canonical form
\* DDDD:BB:DD.F (lowercase hex, padded), so that one physical address is one
\* key whichever adapter reports it.
C13_KeysCanonical == \A k \in Keys(pci_data) : k \in CanonicalKeys

\* the records of the two /proc/ati adapters that are on the result queue
ProcRecordsQueued ==
    { outq[n].value : n \in { m \in 1..Len(outq) : outq[m].job \in {3, 4} /\ outq[m].ok } }

\* C14: when the node's address cannot be resolved (_get_proc_node_busid
\* returns None) the /proc/ati adapters add no entry to their record, nothing
\* of them gets into the aggregate, and the run does not fail.
C14_NoAddressNoEntry ==
    interrupt_info = <<>> =>
        /\ \A rec \in ProcRecordsQueued : Keys(rec) = {}
        /\ ~Contributed(3) /\ ~Contributed(4)
        /\ ~ProjectionFailed

(***************************************************************************)
(* The projection by itself (lines 565-583), as a function of the          *)
(* aggregate and of args.device. SpecProject starts main at line 565 with  *)
(* an aggregate the folds can have left: per bus address a 'status' entry  *)
(* and, depending on which adapters got their record in, 'location' with   *)
(* the slot's designation and 'product'.                                   *)
(***************************************************************************)
\* at most MaxKeys bus addresses in the aggregate
MaxKeys == 2

\* the bus addresses, in ascending string order
BusIds == <<"0000:0a:00.0", "0000:0b:00.0", "0000:0c:00.0">>

ProjKeys == { BusIds[i] : i \in 1..MaxKeys }

BusIdIndex(k) == CHOOSE i \in 1..Len(BusIds) : BusIds[i] = k

\* slot designations, numbered in their string order
Designations == {1, 2}

NoSlot == 0

\* the tree of bus address k: slot designation s (NoSlot: no 'location'),
\* with or without 'product'
TreeOf(k, s, withProduct) ==
    Map([a \in {"status"} \cup (IF s = NoSlot THEN {} ELSE {"location"})
                          \cup (IF withProduct THEN {"product"} ELSE {}) |->
            CASE a = "status" -> OneKey("clients", Sc(0))
              [] a = "location" -> Map([slot |-> Sc(s), bus |-> Sc(9 + BusIdIndex(k))])
              [] a = "product" -> OneKey("name", Sc(20 + BusIdIndex(k)))])

Aggregates ==
    { Map([k \in K |-> TreeOf(k, sl[k], pr[k])]) :
        K \in SUBSET ProjKeys,
        sl \in [ProjKeys -> Designations \cup {NoSlot}],
        pr \in [ProjKeys -> BOOLEAN] }

InitProject ==
    /\ MergeAtRest
    /\ IloAtRest
    /\ pci_data \in Aggregates
    /\ device \in {NoDevice} \cup ProjKeys
    /\ pc = "project"
    /\ abridge = FALSE
    /\ slow = {}
    /\ interrupt_info = NodeAddress
    /\ busAddr = ToolAddress
    /\ thread_results = <<>>
    /\ deviceList = {}
    /\ idx = 1
    /\ waited = 0
    /\ outcome = <<>>
    /\ poolState = "TERMINATE"
    /\ taskq = <<>>
    /\ running = 0
    /\ outq = <<>>
    /\ merging = {}
    /\ handlerAlive = FALSE
    /\ ready = {}
    /\ success = {}
    /\ folds = <<>>
    /\ gpuDevices = <<>>
    /\ rc = -1

NextProject == \E rev \in BOOLEAN : Projects(rev)

SpecProject == InitProject /\ [][NextProject]_vars

(***************************************************************************)
(* Claims about the projection, read off SpecProject                       *)
(***************************************************************************)
\* main has been through lines 565-572: it printed the list or it raised
ProjectionRan == pc \in {"done", "crashed"}

WithProduct == { k \in Keys(pci_data) : "product" \in Keys(pci_data.m[k]) }

Emitted == { gpuDevices[i] : i \in 1..Len(gpuDevices) }

\* the bus address whose record r is (the records of SpecProject differ)
KeyOf(r) == CHOOSE k \in Keys(pci_data) : pci_data.m[k] = r

RecordHasSlot(r) == HasPath(r, <<"location", "slot">>)

\* C15: with no device selector the emitted list is exactly the records that
\* have 'product', each once; a key without 'product' is not in it.
C15_ExactlyTheProducts ==
    (ProjectionRan /\ device = NoDevice) =>
        /\ Emitted = { pci_data.m[k] : k \in WithProduct }
        /\ Len(gpuDevices) = Cardinality(WithProduct)

\* what the filter of line 567 does when the sort of line 566 has not raised
C15_FilterWhenSorted ==
    (pc = "done" /\ device = NoDevice) =>
        /\ Emitted = { pci_data.m[k] : k \in WithProduct }
        /\ Len(gpuDevices) = Cardinality(WithProduct)

\* C16: a record without location.slot does not make the projection fail; it
\* is emitted before every record that has a slot designation.
C16_MissingSlotSortsFirst ==
    (ProjectionRan /\ \E k \in Keys(pci_data) : ~HasSlot(k)) =>
        /\ pc = "done"
        /\ \A i, j \in 1..Len(gpuDevices) :
              (RecordHasSlot(gpuDevices[i]) /\ ~RecordHasSlot(gpuDevices[j])) => j < i

\* record a is before record b in the order the output is to have
InOutputOrder(a, b) ==
    \/ ValueAt(a, <<"location", "slot">>).v < ValueAt(b, <<"location", "slot">>).v
    \/ /\ ValueAt(a, <<"location", "slot">>) = ValueAt(b, <<"location", "slot">>)
       /\ BusIdIndex(KeyOf(a)) < BusIdIndex(KeyOf(b))

\* C17: the emitted records are in ascending order of location.slot, and
\* records with the same slot designation are in ascending order of their key.
C17_OrderedBySlotThenKey ==
    pc = "done" =>
        \A i, j \in 1..Len(gpuDevices) :
            i < j => InOutputOrder(gpuDevices[i], gpuDevices[j])

\* the part of C17 the sort of line 566 gives: ascending slot designations
C17_AscendingSlots ==
    pc = "done" =>
        \A i, j \in 1..Len(gpuDevices) :
            i < j => SlotOf(KeyOf(gpuDevices[i])) <= SlotOf(KeyOf(gpuDevices[j]))

\* C18: with a device selector the emitted list is exactly the record of the
\* key that equals the selector, with or without 'product'.
C18_ExactlyTheSelected ==
    (ProjectionRan /\ device # NoDevice /\ device \in Keys(pci_data)) =>
        gpuDevices = << pci_data.m[device] >>

\* what the filter of line 569 does when the sort of line 566 has not raised
C18_SelectedWhenSorted ==
    (pc = "done" /\ device # NoDevice) =>
        gpuDevices = IF device \in Keys(pci_data) THEN << pci_data.m[device] >> ELSE <<>>

(***************************************************************************)
(* update_dict_recursive on objects. A dict is an object with an address;  *)
(* the heap is the sequence of the dict objects, a dict maps its keys to   *)
(* cells, and a cell is a scalar (immutable) or a reference to a dict.     *)
(* data[key] = r stores a cell: a reference when r is a dict. The          *)
(* aggregate is the object at address 1; callback_func gets each record    *)
(* as a tree of fresh objects.                                             *)
(***************************************************************************)
Ref(a) == [t |-> "R", v |-> a]

IsRef(c) == c.t = "R"

\* data[key] = cell, for the dict at address a
HeapPut(h, a, key, cell) ==
    [h EXCEPT ![a] = [k \in DOMAIN h[a] \cup {key} |-> IF k = key THEN cell ELSE h[a][k]]]

\* the keys of the dict at address a, in iteration order
HeapIter(h, a, rev) == IterKeys(Map(h[a]), rev)

\* a record as the adapter built it: one new object per dict of the tree
RECURSIVE AllocLoop(_, _, _, _)
AllocLoop(h, a, tree, ks) ==
    IF ks = <<>> THEN h
    ELSE LET key == Head(ks)
             val == tree.m[key]
         IN  IF IsMapping(val)
             THEN LET b  == Len(h) + 1
                      h1 == AllocLoop(Append(h, <<>>), b, val, SortedKeys(Keys(val)))
                  IN  AllocLoop(HeapPut(h1, a, key, Ref(b)), a, tree, Tail(ks))
             ELSE AllocLoop(HeapPut(h, a, key, val), a, tree, Tail(ks))

AllocTree(h, tree) ==
    [h |-> AllocLoop(Append(h, <<>>), Len(h) + 1, tree, SortedKeys(Keys(tree))),
     a |-> Len(h) + 1]

\* an update that takes the incoming dict itself as the default of
\* data.get(key, ...), so that the aggregate and the record share it
RECURSIVE HeapLoopSharing(_, _, _, _, _)
HeapLoopSharing(h, d, u, ks, rev) ==
    IF ks = <<>> THEN [h |-> h, err |-> FALSE, ret |-> d]
    ELSE IF ~IsRef(d) THEN [h |-> h, err |-> TRUE, ret |-> d]
    ELSE LET key   == Head(ks)
             value == h[u][key]
         IN  IF IsRef(value)
             THEN LET target == IF key \in DOMAIN h[d.v] THEN h[d.v][key] ELSE value
                      r == HeapLoopSharing(h, target, value.v,
                                           HeapIter(h, value.v, rev), rev)
                  IN  IF r.err THEN [h |-> r.h, err |-> TRUE, ret |-> d]
                      ELSE HeapLoopSharing(HeapPut(r.h, d.v, key, r.ret), d, u,
                                           Tail(ks), rev)
             ELSE HeapLoopSharing(HeapPut(h, d.v, key, value), d, u, Tail(ks), rev)

\* update_dict_recursive(data, update) with data the cell d and update the
\* dict at address u: the loop over the keys ks of update that are left
RECURSIVE HeapLoop(_, _, _, _, _)
HeapLoop(h, d, u, ks, rev) ==
    IF ks = <<>> THEN [h |-> h, err |-> FALSE, ret |-> d]
    ELSE IF ~IsRef(d) THEN [h |-> h, err |-> TRUE, ret |-> d]
    ELSE LET key   == Head(ks)
             value == h[u][key]
         IN  IF IsRef(value)
             THEN LET has    == key \in DOMAIN h[d.v]
                      \* data.get(key, {}): the stored value, or a new dict
                      h1     == IF has THEN h ELSE Append(h, <<>>)
                      target == IF has THEN h[d.v][key] ELSE Ref(Len(h) + 1)
                      r == HeapLoop(h1, target, value.v, HeapIter(h1, value.v, rev), rev)
                  IN  IF r.err THEN [h |-> r.h, err |-> TRUE, ret |-> d]
                      ELSE HeapLoop(HeapPut(r.h, d.v, key, r.ret), d, u, Tail(ks), rev)
             ELSE HeapLoop(HeapPut(h, d.v, key, value), d, u, Tail(ks), rev)

\* callback_func for each record of recs in turn, until one raises
RECURSIVE HeapFold(_, _, _)
HeapFold(st, recs, rev) ==
    IF recs = <<>> \/ st.err THEN st
    ELSE LET al == AllocTree(st.h, Head(recs))
             r  == HeapLoop(al.h, Ref(1), al.a, HeapIter(al.h, al.a, rev), rev)
         IN  HeapFold([h |-> r.h, roots |-> Append(st.roots, al.a), err |-> r.err],
                      Tail(recs), rev)

\* the heap after the folds of mLog, starting from pci_data = dict()
HeapAfter(rev) == HeapFold([h |-> << <<>> >>, roots |-> <<>>, err |-> FALSE], mLog, rev)

\* the value a cell stands for
RECURSIVE ReadCell(_, _)
ReadCell(h, c) ==
    IF ~IsRef(c) THEN c
    ELSE IF DOMAIN h[c.v] = {} THEN EmptyMap
    ELSE Map([k \in DOMAIN h[c.v] |-> ReadCell(h, h[c.v][k])])

\* the dict objects reachable from a cell
RECURSIVE Reach(_, _)
Reach(h, c) ==
    IF IsRef(c) THEN {c.v} \cup UNION { Reach(h, h[c.v][k]) : k \in DOMAIN h[c.v] }
    ELSE {}

\* the object model and the value model of the merge agree on the aggregate
HeapAgreesWithValue ==
    ~mErr => ReadCell(HeapAfter(FALSE).h, Ref(1)) = mData

\* C19: a fold changes nothing but the aggregate: every record folded so far
\* still reads as it was returned, and no dict object is reachable both from
\* the aggregate and from a record.
C19_FoldTouchesOnlyAggregate ==
    \A rev \in BOOLEAN :
        LET st == HeapAfter(rev)
        IN  \A i \in 1..Len(st.roots) :
                /\ ReadCell(st.h, Ref(st.roots[i])) = mLog[i]
                /\ Reach(st.h, Ref(1)) \cap Reach(st.h, Ref(st.roots[i])) = {}

\* a second record was folded into a nested dict that the first one brought
C19_Witness ==
    /\ Len(mLog) = 2 /\ ~mErr
    /\ \E a \in MergeAttrs :
          /\ HasPath(mLog[1], <<MergeKey, a>>) /\ HasPath(mLog[2], <<MergeKey, a>>)
          /\ IsMapping(ValueAt(mLog[1], <<MergeKey, a>>))
          /\ IsMapping(ValueAt(mLog[2], <<MergeKey, a>>))
          /\ Keys(ValueAt(mLog[2], <<MergeKey, a>>))
                 \ Keys(ValueAt(mLog[1], <<MergeKey, a>>)) # {}

\* main is in the projection (lines 565-583) or past it
AfterTerminate == pc \in {"project", "done"} \/ ProjectionFailed

\* C20: once terminate() has returned no callback_func call is in progress and
\* none begins: while main sorts, filters and prints pci_data nothing folds.
C20_NoFoldDuringProjection == AfterTerminate => merging = {}

\* main is at the projection while a result that came too late is still on the
\* result queue, its callback never called
C20_Witness ==
    /\ pc = "project"
    /\ outq # <<>>
    /\ Head(outq).ok
    /\ \E i \in 1..7 : folds[i] = 1

(***************************************************************************)
(* ILOConn.py. One IloConnection, constructed with BasicAuth or with       *)
(* SessionAuth; the server answers every request with a status of its own  *)
(* choice, or the connection fails and httplib raises. A send_message call *)
(* is followed step by step: the resource request (lines 80-85), the test  *)
(* of line 87, create_session with its redirects (lines 88-90, 147-188),   *)
(* the second resource request (lines 91-93), the return (lines 95-97).    *)
(***************************************************************************)
UNAUTHORIZED == 401

CREATED == 201

TEMPORARY_REDIRECT == 307

\* the statuses the server answers with
Statuses == {200, CREATED, TEMPORARY_REDIRECT, UNAUTHORIZED}

\* send_message calls followed on one connection
MaxCalls == 2

\* redirects of /rest/Sessions followed by one create_session
MaxRedirects == 1

\* after __init__: BasicAuth has its token; SessionAuth has the stored token,
\* a new one, or None when its create_session failed
InitIlo ==
    /\ MergeAtRest
    /\ OrchAtRest
    /\ authType \in {"Basic", "Session"}
    /\ auth_token \in IF authType = "Basic" THEN {"basic"} ELSE {"stored", "new", "none"}
    /\ iloPc = "idle"
    /\ calls = 0
    /\ sends = 0
    /\ firstStatus = 0
    /\ resp = 0
    /\ sessionTries = 0
    /\ redirects = 0

\* send_message is called (lines 80-83)
send_message ==
    /\ iloPc \in {"idle", "returned", "raised"}
    /\ calls < MaxCalls
    /\ calls' = calls + 1
    /\ sends' = 0
    /\ firstStatus' = 0
    /\ resp' = 0
    /\ sessionTries' = 0
    /\ redirects' = 0
    /\ iloPc' = "request"
    /\ UNCHANGED <<mvars, ovars, authType, auth_token>>

\* IloConnection.__request (lines 85 and 93): the request is sent and the
\* server answers with status st
request(st) ==
    /\ iloPc = "request"
    /\ sends' = sends + 1
    /\ resp' = st
    /\ firstStatus' = IF sends = 0 THEN st ELSE firstStatus
    /\ iloPc' = IF sends = 0 THEN "check" ELSE "finish"
    /\ UNCHANGED <<mvars, ovars, authType, auth_token, calls, sessionTries, redirects>>

\* a test of line 87 that does not look at the class of self.auth
UnauthorizedAnyAuth == resp = UNAUTHORIZED

\* line 87: resp.status == httplib.UNAUTHORIZED and isinstance(self.auth, SessionAuth)
NeedsNewSession == resp = UNAUTHORIZED /\ authType = "Session"

\* lines 87-90: create_session is called, or the if is passed over
CheckStatus ==
    /\ iloPc = "check"
    /\ IF NeedsNewSession
       THEN /\ iloPc' = "create_session"
            /\ sessionTries' = sessionTries + 1
       ELSE /\ iloPc' = "finish"
            /\ UNCHANGED sessionTries
    /\ UNCHANGED <<mvars, ovars, authType, auth_token, calls, sends, firstStatus, resp,
                   redirects>>

\* SessionAuth.__createSession: POST to /rest/Sessions, answered with st. A
\* redirect is followed by another POST; CREATED gives the new token, which
\* create_session stores; any other status leaves the token as it was. Then
\* lines 91-93 send the resource request again.
createSession(st) ==
    /\ iloPc = "create_session"
    /\ IF st = TEMPORARY_REDIRECT
       THEN /\ redirects < MaxRedirects
            /\ redirects' = redirects + 1
            /\ UNCHANGED <<auth_token, iloPc>>
       ELSE /\ auth_token' = IF st = CREATED THEN "new" ELSE auth_token
            /\ iloPc' = "request"
            /\ UNCHANGED redirects
    /\ UNCHANGED <<mvars, ovars, authType, calls, sends, firstStatus, resp, sessionTries>>

\* httplib, json.loads or the session file raises: the call ends there
CallRaises ==
    /\ iloPc \in {"request", "create_session", "finish"}
    /\ iloPc' = "raised"
    /\ UNCHANGED <<mvars, ovars, authType, auth_token, calls, sends, firstStatus, resp,
                   sessionTries, redirects>>

\* lines 95-97: return resp, content
Returns ==
    /\ iloPc = "finish"
    /\ iloPc' = "returned"
    /\ UNCHANGED <<mvars, ovars, authType, auth_token, calls, sends, firstStatus, resp,
                   sessionTries, redirects>>

NextIlo ==
    \/ send_message
    \/ \E st \in Statuses : request(st)
    \/ CheckStatus
    \/ \E st \in Statuses : createSession(st)
    \/ CallRaises
    \/ Returns

SpecIlo == InitIlo /\ [][NextIlo]_vars

\* the call's first answer was 401 on a connection with SessionAuth
FirstUnauthorizedSession == firstStatus = UNAUTHORIZED /\ authType = "Session"

\* C21: a send_message call sends the resource request at most twice. It sends
\* it a second time only after a first answer of 401 with SessionAuth and one
\* create_session call; a call that returns has then sent it exactly twice,
\* and exactly once, returning that answer, with BasicAuth or any other first
\* status.
C21_AtMostOneResend ==
    /\ sends <= 2
    /\ sessionTries <= 1
    /\ sends = 2 => (FirstUnauthorizedSession /\ sessionTries = 1)
    /\ iloPc = "returned" =>
          /\ sends = IF FirstUnauthorizedSession THEN 2 ELSE 1
          /\ ~FirstUnauthorizedSession => (resp = firstStatus /\ sessionTries = 0)

\* a call returned after a second 401: the request went out twice, not more
C21_Witness ==
    /\ iloPc = "returned"
    /\ sends = 2
    /\ resp = UNAUTHORIZED
    /\ sessionTries = 1

====
